---- MODULE Spec2Model ----
(***************************************************************************)
(* The two AWS Config rule evaluators of this repository as one state      *)
(* machine:                                                                *)
(*   ALB_HTTP_TO_HTTPS_REDIRECTION_CHECK.evaluate_periodic                 *)
(*   IAM_ROLE_NOT_USED.evaluate_parameters / evaluate_periodic             *)
(* Every step of the machine is one call of a remote API together with the *)
(* local code that runs up to the next call.  The remote services are the  *)
(* environment: what they hold is revealed response by response.           *)
(***************************************************************************)
EXTENDS Integers, Sequences, FiniteSets, TLC

\* ------------------------------------------------------------------ bounds
\* Total size of what the services hand out in one run: every resource,
\* listener, rule, action and role counts one, and so does every continuation
\* (a nextToken / NextMarker / NextToken, a non-empty unprocessedResourceKeys).
MaxItems == 6
\* The same total for the runs whose termination is checked.
MaxLiveItems == 4
\* Longest DaysBeforeUnused text the rule is configured with.
MaxStrLen == 2
\* Oldest LastUsedDate / CreateDate a role carries, in half-days before
\* CURRENT_TIME.
MaxAge == 2
\* Longest time the loaded module goes on serving invocations, in half-days
\* after CURRENT_TIME.
MaxWarm == 1

\* ------------------------------------------------------------- vocabulary
NoToken == 0
COMPLIANT == "COMPLIANT"
NON_COMPLIANT == "NON_COMPLIANT"
ALB_ANNOTATION == "HTTP listener rule must have HTTP to HTTPS redirection action configured"
DEFAULT_RESOURCE_TYPE == "AWS::ElasticLoadBalancingV2::LoadBalancer"
RESOURCE_TYPE == "AWS::IAM::Role"
IAM_ANNOTATION == "Ensure that no AWS IAM Role is unused and make an action if unused (e.g. delete the user)."
DEFAULT_DAYS == 90
\* datetime.now(timezone.utc) when the module was loaded, which is when its
\* first invocation starts: hour 0 of the model's clock.
CURRENT_TIME == 0

LbTypes == {"application", "network"}
\* An action of a listener rule: its Type and its RedirectConfig.Protocol.
Actions == [Type : {"redirect", "forward"}, Protocol : {"HTTPS", "HTTP"}]

\* ------------------------------------------------- what the ELB API can hold
\* Sequences of exactly n actions.
ActionSeqs(n) == [1..n -> Actions]

\* A rule is its sequence of Actions; a rule with k-1 actions has size k.
\* RuleSeqs[m]: the sequences of rules of total size m.
RuleSeqs[m \in 0..(MaxItems + 1)] ==
    IF m = 0 THEN {<<>>}
    ELSE UNION { { <<[Actions |-> a]>> \o rest : a \in ActionSeqs(k - 1), rest \in RuleSeqs[m - k] }
                 : k \in 1..m }

\* A listener: whether it carries an SslPolicy, and the rules describe_rules
\* lists for it.  ListenerSeqs[s]: the sequences of listeners of total size s.
ListenerSeqs[s \in 0..(MaxItems + 1)] ==
    IF s = 0 THEN {<<>>}
    ELSE UNION { { <<[ssl |-> b, rules |-> rs]>> \o rest :
                     b \in BOOLEAN, rs \in RuleSeqs[k - 1], rest \in ListenerSeqs[s - k] }
                 : k \in 1..s }

\* ---------------------------------------------------------------- helpers
RECURSIVE SumLen(_)
SumLen(pages) == IF pages = <<>> THEN 0 ELSE Len(Head(pages)) + SumLen(Tail(pages))

RECURSIVE Flatten(_)
Flatten(pages) == IF pages = <<>> THEN <<>> ELSE Head(pages) \o Flatten(Tail(pages))

Range(s) == { s[i] : i \in DOMAIN s }

\* What a continuation takes from the quota.
Cost(more) == IF more THEN 1 ELSE 0

\* ------------------------------------ what DaysBeforeUnused can be configured as
\* The key is absent, or its JSON value is null, a number or a string.
Chars == {"-", "+", " ", "0", "1", "x"}
Strs == UNION { [1..n -> Chars] : n \in 0..MaxStrLen }
Param(kind, num, str) == [kind |-> kind, num |-> num, str |-> str]
ParamInputs ==
    {Param("absent", 0, <<>>), Param("null", 0, <<>>)}
      \cup { Param("int", n, <<>>) : n \in {-1, 0, 1, 2} }
      \cup { Param("str", 0, s) : s \in Strs }

\* ------------------------------------------------- what get_role can answer
\* Instants of the model's clock, in hours, at which a role can have been
\* used or created when get_role is asked at hour t: every half-day from
\* MaxAge half-days before t up to t.
Instants(t) == { t - 12 * a : a \in 0..MaxAge }
RoleAnswers(t) ==
    { [RoleLastUsed |-> "used", LastUsedDate |-> u, CreateDate |-> t - 12 * MaxAge] : u \in Instants(t) }
      \cup { [RoleLastUsed |-> "empty", LastUsedDate |-> t, CreateDate |-> c] : c \in Instants(t) }
      \cup { [RoleLastUsed |-> "missing", LastUsedDate |-> t, CreateDate |-> t] }

\* A logged call: the API, its argument, the continuation it was sent, the
\* continuation the response carried (<<>> when none), and whether it succeeded.
Call(api, arg, token) == [api |-> api, arg |-> arg, token |-> token, next |-> <<>>, ok |-> TRUE]
\* sleep(DEFAULT_THROTTLE_PERIOD), logged with the function that sleeps.
Sleep(site) == Call(site, <<>>, NoToken)

\* The loop stops after its first page, whatever the response carries.
has_continuation_never(tok) == FALSE
\* while next_token: / if 'NextMarker' in resp: / if 'NextToken' in response:
has_continuation(tok) == tok # NoToken

\* items = more: the page overwrites what was accumulated.
extend_overwrite(items, more) == more
\* items = more + items: the page goes in front of what was accumulated.
extend_prepend(items, more) == more \o items
\* items += more
extend(items, more) == items \o more

VARIABLES
    rule,               \* which lambda_handler runs: "ALB" or "IAM"
    pc,                 \* the call the handler is about to make
    quota,              \* what is left of MaxItems
    calls,              \* every API call and sleep so far, in order
    returned,           \* what the handler returned or raised
    discovered,         \* pages list_discovered_resources has returned
    lbType,             \* configuration type of each described resource
    elbv2,              \* listeners (with their rules) of each load balancer
    albs, next_token,   \* get_all_albs
    resource_keys, items,   \* filter_to_only_albs
    all_elbv2, elb,     \* evaluate_periodic: the list and the loop position
    alb_all_listeners,  \* get_all_listeners: items
    lsn,                \* position of all() over alb_all_listeners
    rule_items,         \* get_all_listener_rules: items
    marker,             \* NextMarker of the last ELB response
    evaluations,
    fetched,            \* the paginated fetch that returned last, and its result
    rule_parameters,    \* DaysBeforeUnused as configured
    valid_rule_parameters,  \* DaysBeforeUnused as evaluate_parameters returned it
    selected,           \* pages select_resource_config has returned
    roles,              \* what get_role answered for each role
    response, role_pos, \* describe_roles: the page in hand, the result to yield
    now                 \* the hour at which the running invocation was started

world == <<discovered, lbType, elbv2, selected, roles>>
iamLocals == <<rule_parameters, valid_rule_parameters, response, role_pos, now>>
albsLocals == <<albs, next_token, resource_keys, items>>
evalLocals == <<all_elbv2, elb, alb_all_listeners, lsn, rule_items, marker>>
vars == <<rule, pc, quota, calls, returned, world, albsLocals, evalLocals, evaluations, fetched, iamLocals>>

NotReturned == [kind |-> "running", value |-> <<>>]
Returned(evs) == [kind |-> "returned", value |-> evs]
Raised(error) == [kind |-> error, value |-> <<>>]

Evaluation(compliance, id, type, annotation) ==
    [complianceType |-> compliance, resourceId |-> id,
     resourceType |-> type, annotation |-> annotation]

\* The Marker / nextToken of the previous response is not passed on.
Request_drops_token ==
    CASE pc = "list_discovered_resources" -> Call(pc, <<>>, NoToken)
      [] pc = "batch_get_resource_config" -> Call(pc, resource_keys, NoToken)
      [] pc = "describe_listeners" -> Call(pc, <<all_elbv2[elb]>>, NoToken)
      [] pc = "describe_rules" -> Call(pc, alb_all_listeners[lsn].ListenerArn, NoToken)
      [] pc = "select_resource_config" -> Call(pc, <<>>, NoToken)
      [] pc = "get_role" -> Call(pc, <<response.Results[role_pos]>>, NoToken)
\* The request the handler is about to send.
Request ==
    CASE pc = "list_discovered_resources" -> Call(pc, <<>>, next_token)
      [] pc = "batch_get_resource_config" -> Call(pc, resource_keys, NoToken)
      [] pc = "describe_listeners" -> Call(pc, <<all_elbv2[elb]>>, marker)
      [] pc = "describe_rules" -> Call(pc, alb_all_listeners[lsn].ListenerArn, marker)
      [] pc = "select_resource_config" -> Call(pc, <<>>, next_token)
      [] pc = "get_role" -> Call(pc, <<response.Results[role_pos]>>, NoToken)
\* The same call, logged with the continuation of its response.
Answered(next) == [Request EXCEPT !.next = next]
Token(tok) == IF tok = NoToken THEN <<>> ELSE <<tok>>
Fetched(fetch, arg, result) == [fetch |-> fetch, arg |-> arg, items |-> result]

\* ------------------------------------------------------------ ALB predicates
\* The Protocol of the redirect is not looked at.
is_https_redirect_action_type_only(action) == action.Type = "redirect"
is_https_redirect_action(action) ==
    action.Type = "redirect" /\ action.Protocol = "HTTPS"

\* any() in place of all().
is_listener_rule_compliant_any(listener_rule) ==
    \E i \in DOMAIN listener_rule.Actions : is_https_redirect_action(listener_rule.Actions[i])
is_listener_rule_compliant(listener_rule) ==
    \A i \in DOMAIN listener_rule.Actions : is_https_redirect_action(listener_rule.Actions[i])

\* The short-circuit is never taken.
is_https_listener_never(listener) == FALSE
is_https_listener(listener) == listener.SslPolicy

\* Every load balancer passes the filter.
is_alb_any(resource) == TRUE
is_alb(resource) == resource.configuration.type = "application"

\* all(is_listener_rule_compliant(r) for r in listener_rules)
rules_compliant(listener_rules) ==
    \A i \in DOMAIN listener_rules : is_listener_rule_compliant(listener_rules[i])

\* The first listener at or after position i that is_listener_compliant has to
\* fetch rules for; Len + 1 when all() runs to the end.
RECURSIVE next_http_listener(_, _)
next_http_listener(listeners, i) ==
    IF i > Len(listeners) THEN i
    ELSE IF is_https_listener(listeners[i]) THEN next_http_listener(listeners, i + 1)
    ELSE i

\* all([...]) over a list: every listener is asked, whatever the answers.
resume_all_eager(listeners, i, ok) == next_http_listener(listeners, i + 1)
\* Where all() resumes once listener i has answered ok; 0 when it stops.
resume_all(listeners, i, ok) ==
    IF ok THEN next_http_listener(listeners, i + 1) ELSE 0

\* ----------------------------------------------------- evaluate_periodic
\* The for loop appends the verdict of load balancer e and moves on.
Emit(compliance) ==
    LET ev == IF compliance = COMPLIANT
              THEN Evaluation(COMPLIANT, all_elbv2[elb], DEFAULT_RESOURCE_TYPE, "")
              ELSE Evaluation(NON_COMPLIANT, all_elbv2[elb], DEFAULT_RESOURCE_TYPE, ALB_ANNOTATION)
        evs == Append(evaluations, ev)
    IN /\ evaluations' = evs
       /\ lsn' = 0
       /\ rule_items' = <<>>
       /\ marker' = NoToken
       /\ alb_all_listeners' = <<>>
       /\ IF elb < Len(all_elbv2)
          THEN /\ elb' = elb + 1
               /\ pc' = "describe_listeners"
               /\ returned' = returned
          ELSE /\ elb' = elb
               /\ pc' = "done"
               /\ returned' = Returned(evs)

\* all(is_listener_compliant(listener, alb_client) for listener in listeners),
\* resumed at position i: either a listener needs its rules, or all() is True.
ContinueAll(listeners, i) ==
    IF i <= Len(listeners)
    THEN /\ pc' = "describe_rules"
         /\ lsn' = i
         /\ rule_items' = <<>>
         /\ marker' = NoToken
         /\ UNCHANGED <<evaluations, elb, returned>>
         /\ alb_all_listeners' = listeners
    ELSE /\ Emit(COMPLIANT)

\* get_all_albs has returned `ids`: the for loop starts.
StartLoop(ids) ==
    /\ all_elbv2' = ids
    /\ fetched' = Fetched("get_all_albs", <<>>, ids)
    /\ UNCHANGED <<alb_all_listeners, lsn, rule_items, marker, evaluations>>
    /\ IF ids = <<>>
       THEN pc' = "done" /\ returned' = Returned(evaluations) /\ elb' = elb
       ELSE pc' = "describe_listeners" /\ returned' = returned /\ elb' = 1

\* list_albs has returned (its, tok) to get_all_albs.
AfterListAlbs(log, its, tok) ==
    LET acc == extend(albs, its) IN
    /\ albs' = acc
    /\ next_token' = tok
    /\ resource_keys' = <<>>
    /\ items' = <<>>
    /\ IF has_continuation(tok)
       THEN /\ calls' = Append(log, Sleep("sleep_get_all_albs"))
            /\ pc' = "list_discovered_resources"
            /\ UNCHANGED <<evalLocals, evaluations, returned, fetched>>
       ELSE /\ calls' = log
            /\ StartLoop([i \in DOMAIN acc |-> acc[i].resourceId])

\* list_albs: list_discovered_resources, then filter_to_only_albs up to its
\* first batch_get_resource_config.
ListDiscoveredResources ==
    /\ rule = "ALB"
    /\ pc = "list_discovered_resources"
    /\ \E n \in 0..quota, more \in BOOLEAN :
         /\ more => n < quota
         /\ LET base == SumLen(discovered)
                ids == [i \in 1..n |-> base + i]
                tok == IF more THEN base + n + 1 ELSE NoToken
                log == Append(calls, Answered(Token(tok)))
            IN /\ discovered' = Append(discovered, ids)
               /\ quota' = quota - n - Cost(more)
               /\ UNCHANGED <<rule, lbType, elbv2, selected, roles, iamLocals>>
               /\ IF ids # <<>>
                  THEN /\ resource_keys' = ids
                       /\ items' = <<>>
                       /\ next_token' = tok
                       /\ calls' = log
                       /\ pc' = "batch_get_resource_config"
                       /\ UNCHANGED <<albs, evalLocals, evaluations, returned, fetched>>
                  ELSE AfterListAlbs(log, <<>>, tok)

\* The sleep is taken after every batch, the last one too.
filter_throttle_always(log, unprocessed) == Append(log, Sleep("sleep_filter_to_only_albs"))
\* if resource_keys: sleep(DEFAULT_THROTTLE_PERIOD)
filter_throttle(log, unprocessed) ==
    IF unprocessed # <<>> THEN Append(log, Sleep("sleep_filter_to_only_albs")) ELSE log

\* One turn of the while loop of filter_to_only_albs.
BatchGetResourceConfig ==
    /\ rule = "ALB"
    /\ pc = "batch_get_resource_config"
    /\ \E done \in SUBSET Range(resource_keys) :
       \E type \in [done -> LbTypes] :
         LET processed == SelectSeq(resource_keys, LAMBDA k : k \in done)
             unprocessed == SelectSeq(resource_keys, LAMBDA k : k \notin done)
             baseConfigurationItems ==
                 [i \in DOMAIN processed |->
                     [resourceId |-> processed[i], configuration |-> [type |-> type[processed[i]]]]]
             found == extend(items, SelectSeq(baseConfigurationItems, is_alb))
             log == filter_throttle(Append(calls, Answered(unprocessed)), unprocessed)
         IN /\ unprocessed # <<>> => quota > 0
            /\ lbType' = type @@ lbType
            /\ quota' = quota - Cost(unprocessed # <<>>)
            /\ UNCHANGED <<rule, discovered, elbv2, selected, roles, iamLocals>>
            /\ IF unprocessed # <<>>
               THEN /\ resource_keys' = unprocessed
                    /\ items' = found
                    /\ calls' = log
                    /\ pc' = "batch_get_resource_config"
                    /\ UNCHANGED <<albs, next_token, evalLocals, evaluations, returned, fetched>>
               ELSE AfterListAlbs(log, found, next_token)

\* One turn of the while loop of get_all_listeners; after the last page the
\* generator handed to all() starts.
DescribeListeners ==
    /\ rule = "ALB"
    /\ pc = "describe_listeners"
    /\ \E s \in 0..quota, more \in BOOLEAN :
       \E new \in ListenerSeqs[s] :
         LET arn == all_elbv2[elb]
             old == IF arn \in DOMAIN elbv2 THEN elbv2[arn] ELSE <<>>
             Listeners == [i \in DOMAIN new |->
                             [ListenerArn |-> <<arn, Len(old) + i>>, SslPolicy |-> new[i].ssl]]
             got == extend(alb_all_listeners, Listeners)
             NextMarker == IF more THEN Len(old \o new) + 1 ELSE NoToken
             log == Append(calls, Answered(Token(NextMarker)))
         IN /\ more => s < quota
            /\ elbv2' = (arn :> (old \o new)) @@ elbv2
            /\ quota' = quota - s - Cost(more)
            /\ UNCHANGED <<rule, discovered, lbType, selected, roles, iamLocals, albsLocals, all_elbv2>>
            /\ IF has_continuation(NextMarker)
               THEN /\ calls' = Append(log, Sleep("sleep_get_all_listeners"))
                    /\ alb_all_listeners' = got
                    /\ marker' = NextMarker
                    /\ pc' = "describe_listeners"
                    /\ UNCHANGED <<elb, lsn, rule_items, evaluations, returned, fetched>>
               ELSE /\ calls' = log
                    /\ fetched' = Fetched("get_all_listeners", <<arn>>, got)
                    /\ ContinueAll(got, next_http_listener(got, 1))

\* One turn of the while loop of get_all_listener_rules; after the last page
\* is_listener_compliant answers and all() goes on or stops.
DescribeRules ==
    /\ rule = "ALB"
    /\ pc = "describe_rules"
    /\ LET listener == alb_all_listeners[lsn]
           arn == listener.ListenerArn
           held == elbv2[arn[1]][arn[2]].rules
           from == IF Request.token = NoToken THEN 0 ELSE Request.token - 1
       IN \E k \in 0..(Len(held) - from), more \in BOOLEAN :
            LET Rules == SubSeq(held, from + 1, from + k)
                got == extend(rule_items, Rules)
                NextMarker == IF more THEN from + k + 1 ELSE NoToken
                log == Append(calls, Answered(Token(NextMarker)))
            IN /\ more => quota > 0
               /\ from + k < Len(held) => more
               /\ quota' = quota - Cost(more)
               /\ UNCHANGED <<rule, world, iamLocals, albsLocals, all_elbv2>>
               /\ IF has_continuation(NextMarker)
                  THEN /\ calls' = Append(log, Sleep("sleep_get_all_listener_rules"))
                       /\ rule_items' = got
                       /\ marker' = NextMarker
                       /\ pc' = "describe_rules"
                       /\ UNCHANGED <<elb, alb_all_listeners, lsn, evaluations, returned, fetched>>
                  ELSE /\ calls' = log
                       /\ fetched' = Fetched("get_all_listener_rules", arn, got)
                       /\ LET i == resume_all(alb_all_listeners, lsn, rules_compliant(got))
                          IN IF i = 0
                             THEN Emit(NON_COMPLIANT)
                             ELSE ContinueAll(alb_all_listeners, i)

\* ------------------------------------------------------ IAM_ROLE_NOT_USED
\* Python's truth value of the configured value.
falsy(p) ==
    \/ p.kind = "null"
    \/ p.kind = "int" /\ p.num = 0
    \/ p.kind = "str" /\ p.str = <<>>

\* str.strip(), as int() applies it.
RECURSIVE lstrip(_)
lstrip(s) == IF s # <<>> /\ Head(s) = " " THEN lstrip(Tail(s)) ELSE s
RECURSIVE rstrip(_)
rstrip(s) == IF s # <<>> /\ s[Len(s)] = " " THEN rstrip(SubSeq(s, 1, Len(s) - 1)) ELSE s

DigitValue(c) == IF c = "1" THEN 1 ELSE 0
RECURSIVE Decimal(_)
Decimal(s) ==
    IF s = <<>> THEN 0
    ELSE 10 * Decimal(SubSeq(s, 1, Len(s) - 1)) + DigitValue(s[Len(s)])

\* int(x): the integer, or the exception it raises.
int(p) ==
    IF p.kind = "int" THEN [error |-> "", value |-> p.num]
    ELSE IF p.kind = "str"
    THEN LET t == rstrip(lstrip(p.str))
             signed == t # <<>> /\ Head(t) \in {"-", "+"}
             digits == IF signed THEN Tail(t) ELSE t
         IN IF digits # <<>> /\ \A i \in DOMAIN digits : digits[i] \in {"0", "1"}
            THEN [error |-> "", value |-> IF signed /\ Head(t) = "-" THEN 0 - Decimal(digits) ELSE Decimal(digits)]
            ELSE [error |-> "ValueError", value |-> 0]
    ELSE [error |-> "TypeError", value |-> 0]

evaluate_parameters(p) ==
    IF p.kind = "absent"
    THEN [error |-> "InvalidParametersError", DaysBeforeUnused |-> 0]
    ELSE LET c == int(IF falsy(p) THEN Param("int", DEFAULT_DAYS, <<>>) ELSE p)
         IN IF c.error = "ValueError"
            THEN [error |-> "InvalidParametersError", DaysBeforeUnused |-> 0]
            ELSE IF c.error # ""
            THEN [error |-> c.error, DaysBeforeUnused |-> 0]
            ELSE IF c.value < 0
            THEN [error |-> "InvalidParametersError", DaysBeforeUnused |-> 0]
            ELSE [error |-> "", DaysBeforeUnused |-> c.value]

\* The framework validates the parameters, then calls evaluate_periodic.
EvaluateParameters ==
    /\ rule = "IAM"
    /\ pc = "evaluate_parameters"
    /\ LET r == evaluate_parameters(rule_parameters)
       IN IF r.error # ""
          THEN /\ pc' = "raised"
               /\ returned' = Raised(r.error)
               /\ valid_rule_parameters' = valid_rule_parameters
          ELSE /\ pc' = "select_resource_config"
               /\ returned' = returned
               /\ valid_rule_parameters' = r.DaysBeforeUnused
    /\ UNCHANGED <<rule, quota, calls, world, albsLocals, evalLocals, evaluations, fetched,
                   rule_parameters, response, role_pos, now>>

\* timedelta.days of (later - earlier), both in hours.
days(later, earlier) == (later - earlier) \div 24

\* The verdict evaluate_periodic appends for username.
role_evaluation(username, diff, DaysBeforeUnused) ==
    IF diff <= DaysBeforeUnused
    THEN Evaluation(COMPLIANT, username, RESOURCE_TYPE, "")
    ELSE Evaluation(NON_COMPLIANT, username, RESOURCE_TYPE, IAM_ANNOTATION)

\* describe_roles resumed at result i of the page in hand: it yields the
\* result, asks for the next page, or ends the for loop of evaluate_periodic.
ResumeRoles(resp, i, evs) ==
    /\ response' = resp
    /\ evaluations' = evs
    /\ IF i <= Len(resp.Results)
       THEN /\ pc' = "get_role"
            /\ role_pos' = i
            /\ UNCHANGED <<next_token, returned, fetched>>
       ELSE /\ role_pos' = 0
            /\ IF has_continuation(resp.NextToken)
               THEN /\ pc' = "select_resource_config"
                    /\ next_token' = resp.NextToken
                    /\ UNCHANGED <<returned, fetched>>
               ELSE /\ pc' = "done"
                    /\ next_token' = next_token
                    /\ returned' = Returned(evs)
                    /\ fetched' = Fetched("describe_roles", <<>>, [j \in DOMAIN evs |-> evs[j].resourceId])

\* A role costs two of the quota: its name here, its answer in get_role.
SelectResourceConfig ==
    /\ rule = "IAM"
    /\ pc = "select_resource_config"
    /\ \E n \in 0..(quota \div 2), more \in BOOLEAN :
         /\ more => 2 * n < quota
         /\ LET base == SumLen(selected)
                names == [i \in 1..n |-> base + i]
                tok == IF more THEN base + n + 1 ELSE NoToken
            IN /\ selected' = Append(selected, names)
               /\ quota' = quota - 2 * n - Cost(more)
               /\ calls' = Append(calls, Answered(Token(tok)))
               /\ rule_parameters' = Param("absent", 0, <<>>)
               /\ ResumeRoles([Results |-> names, NextToken |-> tok], 1, evaluations)
    /\ UNCHANGED <<rule, discovered, lbType, elbv2, roles, albs, resource_keys, items,
                   evalLocals, valid_rule_parameters, now>>

\* The body of the for loop of evaluate_periodic, for one yielded username.
GetRole ==
    /\ rule = "IAM"
    /\ pc = "get_role"
    /\ \E Role \in RoleAnswers(now) :
         LET username == response.Results[role_pos]
             diff == IF Role.RoleLastUsed = "used"
                     THEN days(CURRENT_TIME, Role.LastUsedDate)
                     ELSE days(CURRENT_TIME, Role.CreateDate)
         IN /\ roles' = (username :> Role) @@ roles
            /\ calls' = Append(calls, Request)
            /\ IF Role.RoleLastUsed = "missing"
               THEN /\ pc' = "raised"
                    /\ returned' = Raised("KeyError")
                    /\ UNCHANGED <<response, role_pos, evaluations, next_token, fetched>>
               ELSE ResumeRoles(response, role_pos + 1,
                                Append(evaluations, role_evaluation(username, diff, valid_rule_parameters)))
    /\ UNCHANGED <<rule, quota, discovered, lbType, elbv2, selected, albs, resource_keys, items,
                   evalLocals, rule_parameters, valid_rule_parameters, now>>

\* ---------------------------------------------------------------- failures
ApiCalls == {"list_discovered_resources", "batch_get_resource_config", "describe_listeners",
             "describe_rules", "select_resource_config", "get_role"}

\* try/except around the call: the verdicts gathered so far are returned.
propagate_swallow(error) ==
    /\ pc' = "done"
    /\ returned' = Returned(evaluations)
    /\ UNCHANGED evaluations
\* The exception of a failed call leaves the handler.
propagate(error) ==
    /\ pc' = "raised"
    /\ returned' = Raised(error)
    /\ UNCHANGED evaluations

\* Any call may fail: boto3 raises, and nothing in the rules catches it.
ApiFailure ==
    /\ pc \in ApiCalls
    /\ calls' = Append(calls, [Request EXCEPT !.ok = FALSE])
    /\ propagate("ClientError")
    /\ UNCHANGED <<rule, quota, world, albsLocals, evalLocals, iamLocals, fetched>>

\* lambda_handler is called again on the module that is already loaded, for
\* the rule as it is configured: evaluate_parameters gives what it gave before
\* and evaluate_periodic starts; CURRENT_TIME is not computed again.
Invoke ==
    /\ rule = "IAM"
    /\ pc \in {"done", "raised"}
    /\ returned.kind \in {"returned", "ClientError", "KeyError"}
    /\ \E later \in 1..MaxWarm :
         /\ now + 12 * later <= CURRENT_TIME + 12 * MaxWarm
         /\ now' = now + 12 * later
    /\ pc' = "select_resource_config"
    /\ calls' = <<>>
    /\ returned' = NotReturned
    /\ evaluations' = <<>>
    /\ selected' = <<>>
    /\ roles' = <<>>
    /\ response' = [Results |-> <<>>, NextToken |-> NoToken]
    /\ role_pos' = 0
    /\ next_token' = NoToken
    /\ fetched' = Fetched("", <<>>, <<>>)
    /\ UNCHANGED <<rule, quota, discovered, lbType, elbv2, albs, resource_keys, items,
                   evalLocals, rule_parameters, valid_rule_parameters>>

\* The module has been loaded and its first invocation starts, the services
\* having `budget` to hand out.
Start(budget) ==
    /\ \/ /\ rule = "ALB"
          /\ pc = "list_discovered_resources"
          /\ rule_parameters = Param("absent", 0, <<>>)
       \/ /\ rule = "IAM"
          /\ pc = "evaluate_parameters"
          /\ rule_parameters \in ParamInputs
    /\ valid_rule_parameters = 0
    /\ now = CURRENT_TIME
    /\ fetched = Fetched("", <<>>, <<>>)
    /\ selected = <<>>
    /\ roles = <<>>
    /\ response = [Results |-> <<>>, NextToken |-> NoToken]
    /\ role_pos = 0
    /\ quota = budget
    /\ calls = <<>>
    /\ returned = NotReturned
    /\ discovered = <<>>
    /\ lbType = <<>>
    /\ elbv2 = <<>>
    /\ albs = <<>>
    /\ next_token = NoToken
    /\ resource_keys = <<>>
    /\ items = <<>>
    /\ all_elbv2 = <<>>
    /\ elb = 0
    /\ alb_all_listeners = <<>>
    /\ lsn = 0
    /\ rule_items = <<>>
    /\ marker = NoToken
    /\ evaluations = <<>>

Init == Start(MaxItems)
LiveInit == Start(MaxLiveItems)

Next ==
    \/ ListDiscoveredResources
    \/ BatchGetResourceConfig
    \/ DescribeListeners
    \/ DescribeRules
    \/ EvaluateParameters
    \/ SelectResourceConfig
    \/ GetRole
    \/ ApiFailure
    \/ Invoke

Spec == Init /\ [][Next]_vars

\* The handler is sequential code: whatever call it is about to make is made,
\* and is answered or fails.
LiveSpec == LiveInit /\ [][Next]_vars /\ WF_vars(Next)
\* ======================================================================
\* What the claims speak about, read off the services and the call log.
\* ======================================================================
Ids(evs) == [i \in DOMAIN evs |-> evs[i].resourceId]

\* Every action of every rule is an HTTPS redirect.
AllHttpsRedirects(rules) ==
    \A i \in DOMAIN rules : \A j \in DOMAIN rules[i].Actions :
        rules[i].Actions[j].Type = "redirect" /\ rules[i].Actions[j].Protocol = "HTTPS"

\* Listeners of the load balancer a verdict is about.
ListenersOf(ev) == elbv2[ev.resourceId]

IsCompliant(ev) == ev.complianceType = COMPLIANT
IsNonCompliant(ev) == ev.complianceType = NON_COMPLIANT /\ ev.annotation = ALB_ANNOTATION

\* The application load balancers in the order they were discovered.
DiscoveryOrder ==
    SelectSeq(Flatten(discovered), LAMBDA k : k \in DOMAIN lbType /\ lbType[k] = "application")

\* The application load balancers in the order batch_get_resource_config
\* returned them: response after response, each in its own order.
RECURSIVE BatchOrder(_)
BatchOrder(log) ==
    IF log = <<>> THEN <<>>
    ELSE LET c == Head(log)
             processed == SelectSeq(c.arg, LAMBDA k : k \notin Range(c.next))
         IN (IF c.api = "batch_get_resource_config" /\ c.ok
             THEN SelectSeq(processed, LAMBDA k : lbType[k] = "application")
             ELSE <<>>) \o BatchOrder(Tail(log))

IsBatch(c) == c.api = "batch_get_resource_config"
IsFilterSleep(c) == c.api = "sleep_filter_to_only_albs"
IsRulesCall(c, id) == c.api = "describe_rules" /\ c.arg[1] = id

\* ---------------------------------------------------------------- C1
\* C1: every load balancer get_all_albs returned gets its verdict, and the
\* verdict is COMPLIANT exactly when each of its listeners has an SslPolicy
\* or has only rules whose every action is a redirect to HTTPS; otherwise it
\* is NON_COMPLIANT with the fixed annotation.
C1_VerdictIsAllOf ==
    rule = "ALB" =>
      /\ \A i \in DOMAIN evaluations :
           LET ev == evaluations[i]
               ls == ListenersOf(ev)
           IN /\ ev.resourceId = all_elbv2[i]
              /\ IsCompliant(ev) <=> \A j \in DOMAIN ls : ls[j].ssl \/ AllHttpsRedirects(ls[j].rules)
              /\ IF IsCompliant(ev) THEN ev.annotation = "" ELSE IsNonCompliant(ev)
      /\ returned.kind = "returned" =>
           returned.value = evaluations /\ Len(evaluations) = Len(all_elbv2)

\* A NON_COMPLIANT verdict was returned for a load balancer that also has a
\* listener with an SslPolicy.
C1_Witness ==
    /\ rule = "ALB" /\ returned.kind = "returned"
    /\ \E i \in DOMAIN returned.value :
         /\ ~IsCompliant(returned.value[i])
         /\ \E j \in DOMAIN ListenersOf(returned.value[i]) : ListenersOf(returned.value[i])[j].ssl

\* ---------------------------------------------------------------- C2
\* C2: the returned list holds exactly one verdict for every discovered
\* resource whose configuration type is application, and nothing else.
C2_OneVerdictPerAlb ==
    rule = "ALB" /\ returned.kind = "returned" =>
      LET passed == { k \in Range(Flatten(discovered)) : lbType[k] = "application" }
          ids == Ids(returned.value)
      IN /\ Range(ids) = passed
         /\ Len(ids) = Cardinality(passed)
         /\ \A i \in DOMAIN returned.value : returned.value[i].resourceType = DEFAULT_RESOURCE_TYPE

\* One verdict was returned although two resources were discovered and the
\* load balancer has two listeners.
C2_Witness ==
    /\ rule = "ALB" /\ returned.kind = "returned"
    /\ Len(returned.value) = 1
    /\ Len(Flatten(discovered)) = 2
    /\ Len(ListenersOf(returned.value[1])) = 2

\* ---------------------------------------------------------------- C3
\* C3: a paginated fetch returns the items of all its pages, each once, page
\* after page and in the order within the page.
C3_FetchKeepsPages ==
    /\ fetched.fetch = "get_all_albs" =>
         /\ fetched.items = BatchOrder(calls)
         /\ Range(fetched.items) = Range(DiscoveryOrder)
         /\ Len(fetched.items) = Len(DiscoveryOrder)
    /\ fetched.fetch = "get_all_listeners" =>
         LET id == fetched.arg[1]
         IN fetched.items = [i \in DOMAIN elbv2[id] |->
                               [ListenerArn |-> <<id, i>>, SslPolicy |-> elbv2[id][i].ssl]]
    /\ fetched.fetch = "get_all_listener_rules" =>
         fetched.items = elbv2[fetched.arg[1]][fetched.arg[2]].rules
    /\ fetched.fetch = "describe_roles" =>
         fetched.items = Flatten(selected)

\* get_all_listener_rules returned two rules that came on two pages.
C3_Witness ==
    /\ fetched.fetch = "get_all_listener_rules"
    /\ Len(fetched.items) = 2
    /\ \E k \in DOMAIN calls : calls[k].api = "describe_rules" /\ calls[k].token = 2

\* ---------------------------------------------------------------- C4
\* The batch_get_resource_config calls and throttle sleeps of one
\* filter_to_only_albs, which start at position i of the log.
RECURSIVE RunLen(_, _)
RunLen(log, i) ==
    IF i <= Len(log) /\ (IsBatch(log[i]) \/ IsFilterSleep(log[i]))
    THEN 1 + RunLen(log, i + 1) ELSE 0

\* C4: filter_to_only_albs asks again for exactly the unprocessed keys of the
\* previous response until a response has none, keeps the application items
\* of every batch, and sleeps between two batches and not after the last:
\* B batches, B - 1 sleeps.
C4_FilterBatches ==
    rule = "ALB" =>
      /\ \A i \in DOMAIN calls :
           IsBatch(calls[i]) /\ (i = 1 \/ ~IsFilterSleep(calls[i - 1])) =>
             LET n == RunLen(calls, i)
                 run == i..(i + n - 1)
                 B == Cardinality({ j \in run : IsBatch(calls[j]) })
                 S == Cardinality({ j \in run : IsFilterSleep(calls[j]) })
                 over == i + n - 1 < Len(calls) \/ pc # "batch_get_resource_config"
             IN /\ over => S = B - 1
                /\ \A j \in run :
                     IsFilterSleep(calls[j]) =>
                       /\ IsBatch(calls[j - 1]) /\ calls[j - 1].next # <<>>
                       /\ j < Len(calls) => IsBatch(calls[j + 1]) /\ calls[j + 1].arg = calls[j - 1].next
                       /\ j = Len(calls) => pc = "batch_get_resource_config" /\ resource_keys = calls[j - 1].next
                /\ \A j \in run :
                     IsBatch(calls[j]) /\ calls[j].ok /\ j < i + n - 1 => calls[j].next # <<>>
      /\ pc # "raised" => Ids(albs) \o Ids(items) = BatchOrder(calls)

\* A filter that needed two batches has returned, and both load balancers
\* got their verdict.
C4_Witness ==
    /\ rule = "ALB" /\ returned.kind = "returned"
    /\ Len(returned.value) = 2
    /\ \E j \in DOMAIN calls : IsFilterSleep(calls[j])

\* ---------------------------------------------------------------- C5
\* The verdict when the rules of every listener are inspected, those of the
\* listeners with an SslPolicy too.
AllListenersRedirect(ls) == \A j \in DOMAIN ls : AllHttpsRedirects(ls[j].rules)

\* C5, as claimed: the verdict is the one computed without the short-circuit.
C5_ShortCircuitIsOnlyAnOptimization ==
    rule = "ALB" =>
      \A i \in DOMAIN evaluations :
        IsCompliant(evaluations[i]) <=> AllListenersRedirect(ListenersOf(evaluations[i]))

\* C5, amended: omitting the short-circuit can only turn a COMPLIANT verdict
\* into NON_COMPLIANT, and the two verdicts are equal whenever no listener
\* with an SslPolicy has a rule with an action other than an HTTPS redirect.
C5_ShortCircuitOnlyAddsCompliance ==
    rule = "ALB" =>
      \A i \in DOMAIN evaluations :
        LET ev == evaluations[i]
            ls == ListenersOf(ev)
        IN /\ AllListenersRedirect(ls) => IsCompliant(ev)
           /\ (\A j \in DOMAIN ls : ls[j].ssl => AllHttpsRedirects(ls[j].rules))
                => (IsCompliant(ev) <=> AllListenersRedirect(ls))

\* A COMPLIANT verdict for a load balancer whose listener with an SslPolicy
\* has a rule that does not redirect to HTTPS.
C5_Witness ==
    /\ rule = "ALB"
    /\ \E i \in DOMAIN evaluations :
         /\ IsCompliant(evaluations[i])
         /\ \E j \in DOMAIN ListenersOf(evaluations[i]) :
              /\ ListenersOf(evaluations[i])[j].ssl
              /\ ~AllHttpsRedirects(ListenersOf(evaluations[i])[j].rules)

\* ---------------------------------------------------------------- C6
\* C6: describe_rules is never called for a listener that has an SslPolicy,
\* and a load balancer whose listeners all have one is COMPLIANT without any
\* describe_rules call.
C6_NoRulesCallForHttps ==
    rule = "ALB" =>
      /\ \A k \in DOMAIN calls :
           calls[k].api = "describe_rules" => ~elbv2[calls[k].arg[1]][calls[k].arg[2]].ssl
      /\ \A i \in DOMAIN evaluations :
           LET ev == evaluations[i]
               ls == ListenersOf(ev)
           IN (\A j \in DOMAIN ls : ls[j].ssl) =>
                /\ IsCompliant(ev)
                /\ \A k \in DOMAIN calls : ~IsRulesCall(calls[k], ev.resourceId)

\* A verdict for a load balancer with two listeners, both with an SslPolicy,
\* one of them with a rule.
C6_Witness ==
    /\ rule = "ALB"
    /\ \E i \in DOMAIN evaluations :
         LET ls == ListenersOf(evaluations[i])
         IN /\ Len(ls) = 2
            /\ \A j \in DOMAIN ls : ls[j].ssl
            /\ \E j \in DOMAIN ls : ls[j].rules # <<>>

\* ---------------------------------------------------------------- C7
\* is_listener_compliant is False for the listener: no SslPolicy, and a rule
\* with an action that is not an HTTPS redirect.
Failing(l) == ~l.ssl /\ ~AllHttpsRedirects(l.rules)
FirstFailing(ls) ==
    CHOOSE f \in DOMAIN ls : Failing(ls[f]) /\ \A j \in 1..(f - 1) : ~Failing(ls[j])
\* The listeners get_all_listener_rules was invoked for, in order: each
\* invocation starts with a describe_rules call that carries no Marker.
RulesFetches(id) ==
    LET first == SelectSeq(calls, LAMBDA c : IsRulesCall(c, id) /\ c.token = NoToken)
    IN [k \in DOMAIN first |-> first[k].arg]

\* C7: when is_listener_compliant fails for a listener, the verdict is
\* NON_COMPLIANT with the annotation, and get_all_listener_rules was invoked
\* once for every listener without SslPolicy up to and including the first
\* failing one, in listener order, and for none after it.
C7_StopsAtFirstFailure ==
    rule = "ALB" =>
      \A i \in DOMAIN evaluations :
        LET ev == evaluations[i]
            id == ev.resourceId
            ls == ListenersOf(ev)
        IN (\E f \in DOMAIN ls : Failing(ls[f])) =>
             /\ IsNonCompliant(ev)
             /\ RulesFetches(id) =
                  SelectSeq([j \in 1..FirstFailing(ls) |-> <<id, j>>], LAMBDA a : ~ls[a[2]].ssl)

\* A verdict for a load balancer with a failing listener and another
\* listener without SslPolicy.
C7_Witness ==
    /\ rule = "ALB"
    /\ \E i \in DOMAIN evaluations :
         LET ls == ListenersOf(evaluations[i])
         IN \E f \in DOMAIN ls : \E j \in DOMAIN ls :
              Failing(ls[f]) /\ j # f /\ ~ls[j].ssl

\* ---------------------------------------------------------------- C8
\* C8, as claimed: the verdicts are in discovery order however the batches
\* split the keys.
C8_VerdictsInDiscoveryOrder ==
    rule = "ALB" /\ returned.kind = "returned" => Ids(returned.value) = DiscoveryOrder

\* No response of batch_get_resource_config left a key unprocessed that
\* stands before a key it processed.
BatchesKeepOrder ==
    \A k \in DOMAIN calls :
      IsBatch(calls[k]) =>
        \A a \in DOMAIN calls[k].arg : \A b \in DOMAIN calls[k].arg :
          a < b /\ calls[k].arg[a] \in Range(calls[k].next) => calls[k].arg[b] \in Range(calls[k].next)

\* C8, amended: the verdicts are in the order in which
\* batch_get_resource_config returned the load balancers, page after page and
\* response after response; that is the discovery order whenever no response
\* leaves a key unprocessed that stands before a key it processed.
C8_VerdictsInBatchOrder ==
    rule = "ALB" /\ returned.kind = "returned" =>
      /\ Ids(returned.value) = BatchOrder(calls)
      /\ BatchesKeepOrder => Ids(returned.value) = DiscoveryOrder

\* The second discovered load balancer got its verdict before the first.
C8_Witness ==
    /\ rule = "ALB" /\ returned.kind = "returned"
    /\ Ids(returned.value) = <<2, 1>>

\* ---------------------------------------------------------------- C9
\* C9: a failed call is the last call, the handler has raised its error, and
\* nothing is returned.
C9_FailurePropagates ==
    \A k \in DOMAIN calls :
      ~calls[k].ok =>
        /\ k = Len(calls)
        /\ pc = "raised"
        /\ returned = Raised("ClientError")
        /\ returned.value = <<>>

\* A call failed after a verdict had been appended.
C9_Witness ==
    /\ pc = "raised"
    /\ calls # <<>> /\ ~calls[Len(calls)].ok
    /\ evaluations # <<>>

\* --------------------------------------------------------------- C10
\* The configured value is empty: null or the empty string.
Empty(p) == p.kind = "null" \/ (p.kind = "str" /\ p.str = <<>>)

\* What the claim has evaluate_parameters do with the configured value p,
\* seen in the state the handler is in afterwards.
ValidatedAsClaimed(p) ==
    IF \/ p.kind = "absent"
       \/ ~Empty(p) /\ int(p).error # ""
       \/ ~Empty(p) /\ int(p).value < 0
    THEN pc' = "raised" /\ returned' = Raised("InvalidParametersError") /\ calls' = <<>>
    ELSE /\ pc' = "select_resource_config"
         /\ valid_rule_parameters' >= 0
         /\ valid_rule_parameters' = IF Empty(p) THEN DEFAULT_DAYS ELSE int(p).value

\* C10: evaluate_parameters raises InvalidParametersError, before any call,
\* when DaysBeforeUnused is absent, is not an integer or is negative;
\* otherwise it returns the configured integer, 90 for an empty value.
C10_ParametersValidated ==
    [][rule = "IAM" /\ pc = "evaluate_parameters" => ValidatedAsClaimed(rule_parameters)]_vars

\* --------------------------------------------------------------- C11
\* Whole days from instant t to the reference time, both in hours.
WholeDays(ref, t) == (ref - t) \div 24
\* The timestamp the claim measures a role by: LastUsedDate, or CreateDate
\* when the role has no prior usage.
Stamp(Role) == IF Role.RoleLastUsed = "used" THEN Role.LastUsedDate ELSE Role.CreateDate

\* C11: every role describe_roles yielded gets exactly one verdict, COMPLIANT
\* when the whole days from its LastUsedDate to the reference time are at most
\* DaysBeforeUnused and NON_COMPLIANT otherwise; a role without prior usage
\* (RoleLastUsed missing or empty) is no error and is measured by CreateDate;
\* with DaysBeforeUnused = 0 COMPLIANT means used within the last 24 hours.
C11_OneVerdictPerRole ==
    rule = "IAM" =>
      /\ returned.kind # "KeyError"
      /\ \A u \in DOMAIN roles :
           LET vs == { i \in DOMAIN evaluations : evaluations[i].resourceId = u }
               idle == WholeDays(CURRENT_TIME, Stamp(roles[u]))
           IN /\ Cardinality(vs) = 1
              /\ \A i \in vs :
                   /\ evaluations[i].resourceType = RESOURCE_TYPE
                   /\ IsCompliant(evaluations[i]) <=> idle <= valid_rule_parameters
                   /\ ~IsCompliant(evaluations[i]) => evaluations[i].complianceType = NON_COMPLIANT
                   /\ valid_rule_parameters = 0 =>
                        (IsCompliant(evaluations[i]) <=> CURRENT_TIME - Stamp(roles[u]) < 24)
      /\ returned.kind = "returned" => Ids(returned.value) = Flatten(selected)
\* --------------------------------------------------------------- C12
\* Position of the first request of `api` after position k of the log, one
\* past the end of the log when there is none.
RECURSIVE NextRequest(_, _)
NextRequest(api, k) ==
    IF k + 1 > Len(calls) \/ calls[k + 1].api = api THEN k + 1 ELSE NextRequest(api, k + 1)

\* The fetch that pages with `api` sleeps at `site` once between a response
\* that carries a continuation and the next request, and not otherwise.
ThrottledBetweenPages(api, site) ==
    /\ \A k \in DOMAIN calls :
         calls[k].api = api =>
           LET j == NextRequest(api, k)
               sleeps == { i \in (k + 1)..(j - 1) : calls[i].api = site }
           IN /\ calls[k].next = <<>> => sleeps = {}
              /\ calls[k].next # <<>> => Cardinality(sleeps) <= 1
              /\ calls[k].next # <<>> /\ j <= Len(calls) => Cardinality(sleeps) = 1
    /\ \A i \in DOMAIN calls :
         calls[i].api = site => \E k \in 1..(i - 1) : calls[k].api = api

\* C12: every paginated fetch of both rules sleeps between two consecutive
\* page requests and not after the last page: N pages, N - 1 sleeps.
C12_ThrottleBetweenPages ==
    /\ ThrottledBetweenPages("list_discovered_resources", "sleep_get_all_albs")
    /\ ThrottledBetweenPages("describe_listeners", "sleep_get_all_listeners")
    /\ ThrottledBetweenPages("describe_rules", "sleep_get_all_listener_rules")
    /\ ThrottledBetweenPages("select_resource_config", "sleep_describe_roles")
\* --------------------------------------------------------------- C13
PagedApis == {"list_discovered_resources", "describe_listeners", "describe_rules"}

\* Position of the last request of `api` before position k of the log, 0 when
\* there is none.
RECURSIVE PrevRequest(_, _)
PrevRequest(api, k) ==
    IF k - 1 < 1 \/ calls[k - 1].api = api THEN k - 1 ELSE PrevRequest(api, k - 1)

\* C13: in the ALB rule the first request of a paginated fetch carries no
\* continuation and every later one carries the continuation of the response
\* just before it in the same fetch; for a load balancer every
\* describe_listeners page is requested before any describe_rules call, and
\* describe_rules goes listener by listener in listener order, all pages of
\* one listener before the first page of the next.
C13_TokensAndCallOrder ==
    rule = "ALB" =>
      /\ \A k \in DOMAIN calls :
           calls[k].api \in PagedApis =>
             LET p == PrevRequest(calls[k].api, k)
             IN IF calls[k].token = NoToken
                THEN p = 0 \/ (calls[p].next = <<>> /\ calls[p].arg # calls[k].arg)
                             \/ (calls[p].next = <<>> /\ calls[k].api = "list_discovered_resources")
                ELSE /\ p # 0
                     /\ calls[p].arg = calls[k].arg
                     /\ calls[p].next = <<calls[k].token>>
      /\ \A i \in DOMAIN calls : \A j \in DOMAIN calls :
           /\ calls[i].api = "describe_rules" /\ calls[j].api = "describe_listeners"
              /\ calls[j].arg = <<calls[i].arg[1]>> => j < i
           /\ calls[i].api = "describe_rules" /\ calls[j].api = "describe_rules"
              /\ calls[i].arg[1] = calls[j].arg[1] /\ i < j => calls[i].arg[2] <= calls[j].arg[2]

\* Two pages of listeners, two pages of rules for the first listener, and a
\* describe_rules call for the second listener.
C13_Witness ==
    /\ rule = "ALB"
    /\ \E k \in DOMAIN calls : calls[k].api = "describe_listeners" /\ calls[k].token # NoToken
    /\ \E k \in DOMAIN calls :
         calls[k].api = "describe_rules" /\ calls[k].token # NoToken /\ calls[k].arg[2] = 1
    /\ \E k \in DOMAIN calls : calls[k].api = "describe_rules" /\ calls[k].arg[2] = 2
\* --------------------------------------------------------------- C15
\* C15: whichever invocation of the loaded module is running, a role whose
\* last use (creation, when never used) lies more than DaysBeforeUnused whole
\* days before the start of that invocation has a NON_COMPLIANT verdict.
C15_IdleTimeUpToInvocation ==
    rule = "IAM" =>
      \A i \in DOMAIN evaluations :
        LET u == evaluations[i].resourceId
        IN WholeDays(now, Stamp(roles[u])) > valid_rule_parameters
             => evaluations[i].complianceType = NON_COMPLIANT
\* --------------------------------------------------------------- C14
LoopApis == PagedApis \cup {"select_resource_config"}
\* What is called for a page before the loop asks for the next page.
InnerCalls(api) ==
    IF api = "list_discovered_resources"
    THEN {"batch_get_resource_config", "sleep_filter_to_only_albs", "sleep_get_all_albs"}
    ELSE IF api = "select_resource_config" THEN {"get_role"}
    ELSE IF api = "describe_listeners" THEN {"sleep_get_all_listeners"}
    ELSE {"sleep_get_all_listener_rules"}

\* A page-cursor loop goes on with the next page of the same listing while the
\* response carries a continuation, and is over when it carries none.
LoopFollowsContinuation ==
    \A k \in DOMAIN calls :
      calls[k].api \in LoopApis /\ calls[k].ok =>
        LET api == calls[k].api
            j == NextRequest(api, k)
        IN IF calls[k].next # <<>>
           THEN /\ \A i \in (k + 1)..(j - 1) : calls[i].api \in InnerCalls(api)
                /\ j <= Len(calls) =>
                     calls[j].arg = calls[k].arg /\ <<calls[j].token>> = calls[k].next
                /\ j > Len(calls) =>
                     /\ pc \in {api, "raised"} \cup InnerCalls(api)
                     /\ pc = api => Request.arg = calls[k].arg /\ <<Request.token>> = calls[k].next
           ELSE /\ j <= Len(calls) =>
                     calls[j].token = NoToken /\ calls[j].arg # calls[k].arg
                /\ j > Len(calls) /\ pc = api =>
                     Request.token = NoToken /\ Request.arg # calls[k].arg

Finished == pc \in {"done", "raised"}
ReturnsVerdicts == pc = "done" => returned = Returned(evaluations)

\* C14: every page-cursor loop is over exactly when a response carries no
\* continuation and goes on while one is carried; and, the listings ending
\* and batch_get_resource_config leaving no key unprocessed after finitely
\* many answers, every invocation ends: it returns its list of verdicts
\* unless a call failed.
C14_LoopsEndWithContinuation ==
    /\ [](LoopFollowsContinuation /\ ReturnsVerdicts)
    /\ (~Finished ~> Finished)

\* The ALB rule has returned after a second page of resources, a second batch
\* and a second page of listeners.
C14_Witness ==
    /\ rule = "ALB" /\ returned.kind = "returned"
    /\ \E k \in DOMAIN calls : calls[k].api = "list_discovered_resources" /\ calls[k].next # <<>>
    /\ \E k \in DOMAIN calls : calls[k].api = "batch_get_resource_config" /\ calls[k].next # <<>>
    /\ \E k \in DOMAIN calls : calls[k].api = "describe_listeners" /\ calls[k].next # <<>>
====
